---- MODULE Spec2Model ----
(***************************************************************************)
(* Revenue and order statistics of coffee-craft-service.                   *)
(*                                                                         *)
(* The five aggregation queries of src/services/stats/revenue.service.ts   *)
(* are modelled as handlers that (1) resolve the period of the query into  *)
(* a date range, (2) issue one aggregate / groupBy call to the Order table *)
(* and await it, (3) shape the reply into the result.  Money is counted in *)
(* minor units, instants in ticks (TicksPerDay ticks to the day).          *)
(***************************************************************************)
EXTENDS Integers, Sequences, FiniteSets, Bags, TLC

\* -------------------------------------------------------------- bounds
\* Most rows the Order table holds when a store call executes.
MaxOrders == 2
\* Resolution of the clock: ticks in one day.
TicksPerDay == 2

\* -------------------------------------------------------------- enums
\* Object.values(<enum>) lists the values in the order of declaration.
OrderStatus == <<"PENDING", "CONFIRMED", "SHIPPED", "DELIVERED", "CANCELED">>
PaymentStatus == <<"PENDING", "PAID", "FAILED", "REFUNDED">>
PaymentMethod == <<"COD", "CREDIT_CARD", "VNPAY">>

Range(s) == {s[i] : i \in 1..Len(s)}

\* ------------------------------------- requests and the Order table
\* The requests that may be in flight at once.
Reqs == {"r1", "r2"}

Ops == {"getRevenueSummary", "getRevenueByPaymentMethod", "getOrdersByStatus",
        "getOrdersByPaymentStatus", "getOrderFinancials"}

\* Samples: the instants at which an order was placed (the start of day 0
\* and of day 1), what it amounts to, its (shippingFee, discountAmount), and
\* the instants at which a request reads the clock (in day 0 and in day 1).
CreatedAts == {0, TicksPerDay}
Amounts == {0, 2}
Fees == {<<0, 0>>, <<1, 0>>, <<0, 2>>}
Nows == {1, TicksPerDay + 1}
\* The calendar days a custom startDate / endDate names.
Days == {0, 1}

\* A row of model Order: the columns the statistics read.
Order(c, s, ps, pm, ft, sf, da) ==
  [createdAt |-> c, status |-> s, paymentStatus |-> ps, paymentMethod |-> pm,
   finalTotal |-> ft, shippingFee |-> sf, discountAmount |-> da]

\* The rows a store call of handler op may meet.  The columns the call
\* filters, groups or sums on are drawn from the samples and the enums, the
\* others hold the default of the schema (finalTotal, which has none, holds
\* one sample).  Where the call groups on another enum, status is drawn from
\* a sample of statuses, of which one at least counts as revenue and one
\* does not.
RowsFor(op) ==
  CASE op = "getRevenueSummary" ->
         {Order(c, s, "PENDING", "COD", ft, 0, 0) :
            c \in CreatedAts, s \in Range(OrderStatus), ft \in Amounts}
    [] op = "getRevenueByPaymentMethod" ->
         {Order(c, s, "PENDING", pm, ft, 0, 0) :
            c \in CreatedAts, s \in {"PENDING", "DELIVERED", "CANCELED"},
            pm \in Range(PaymentMethod), ft \in Amounts}
    [] op = "getOrdersByStatus" ->
         {Order(c, s, "PENDING", "COD", ft, 0, 0) :
            c \in CreatedAts, s \in Range(OrderStatus), ft \in Amounts}
    [] op = "getOrdersByPaymentStatus" ->
         {Order(c, s, ps, "COD", ft, 0, 0) :
            c \in CreatedAts, s \in {"DELIVERED", "CANCELED"},
            ps \in Range(PaymentStatus), ft \in Amounts}
    [] op = "getOrderFinancials" ->
         {Order(c, s, "PENDING", "COD", 2, f[1], f[2]) :
            c \in CreatedAts, s \in Range(OrderStatus), f \in Fees}

\* The tables of at most k rows drawn from D (rows that agree on every
\* column differ in id only, so a table is a bag of rows).
RECURSIVE TablesUpTo(_, _)
TablesUpTo(D, k) ==
  IF k = 0 THEN {EmptyBag}
  ELSE LET smaller == TablesUpTo(D, k - 1)
       IN  smaller \cup {t (+) SetToBag({x}) : t \in smaller, x \in D}

Tables(op) == TablesUpTo(RowsFor(op), MaxOrders)

\* ------------------------------------------------------- store queries
\* A nullable value: << >> is null, <<v>> is v.
Null == << >>
Some(v) == <<v>>

RECURSIVE SumOver(_, _, _)
SumOver(S, t, column) ==
  IF S = {} THEN 0
  ELSE LET x == CHOOSE y \in S : TRUE
       IN  x[column] * t[x] + SumOver(S \ {x}, t, column)

\* Mutant: a half-open window, its end excluded.
MatchesHalfOpen(row, where) ==
  /\ row.createdAt >= where.createdAt.gte
  /\ row.createdAt < where.createdAt.lte
  /\ where.status # Null => row.status \in where.status[1]

\* where: { createdAt: { gte, lte }, status: { in } }  (status optional).
Matches(row, where) ==
  /\ row.createdAt >= where.createdAt.gte
  /\ row.createdAt <= where.createdAt.lte
  /\ where.status # Null => row.status \in where.status[1]

FindMany(t, where) ==
  [x \in {y \in DOMAIN t : Matches(y, where)} |-> t[x]]

\* prisma.order.aggregate({ where, _sum, _count }): the sum of no row is null.
Aggregate(t, where, sumColumns) ==
  LET rows == FindMany(t, where)
  IN  [sum |-> [c \in sumColumns |->
                  IF DOMAIN rows = {} THEN Null
                  ELSE Some(SumOver(DOMAIN rows, rows, c))],
       count |-> [id |-> BagCardinality(rows)]]

\* prisma.order.groupBy({ by: [by], where, _sum, _count }): one group per
\* value of the column that occurs among the matching rows.
GroupBy(t, by, where) ==
  LET rows == FindMany(t, where)
      of(k) == [x \in {y \in DOMAIN rows : y[by] = k} |-> rows[x]]
  IN  {[key |-> k,
        sum |-> [finalTotal |-> Some(SumOver(DOMAIN of(k), of(k), "finalTotal"))],
        count |-> [id |-> BagCardinality(of(k))]] :
         k \in {y[by] : y \in DOMAIN rows}}

\* The orders in which the store may list a set of groups.
Listings(G) ==
  {s \in [1..Cardinality(G) -> G] : \A i, j \in 1..Cardinality(G) : i # j => s[i] # s[j]}

\* ------------------------------------------------------ period resolver
\* getDateRangeFromPeriod of utils/period.util: trailing windows that end at
\* the instant the clock shows, in days.
WeekDays == 7
MonthDays == 30
YearDays == 365

Periods == {"absent", "daily", "weekly", "monthly", "yearly", "custom"}

\* A startDate / endDate of the query string: absent, a string that names no
\* date, or the YYYY-MM-DD of day number day.
NoDate == [kind |-> "absent", day |-> 0]
BadDate == [kind |-> "invalid", day |-> 0]
DateOf(d) == [kind |-> "date", day |-> d]
DateInputs == {NoDate, BadDate} \cup {DateOf(d) : d \in Days}

\* A calendar date parses to the first instant of its day.
ParseDate(s) == s.day * TicksPerDay

Resolved(start, end) == [ok |-> TRUE, startDate |-> start, endDate |-> end]
InvalidRange == [ok |-> FALSE, startDate |-> 0, endDate |-> 0]

getDateRangeFromPeriod(period, startDate, endDate, now) ==
  CASE period = "absent" -> Resolved(now - MonthDays * TicksPerDay, now)
    [] period = "daily" -> Resolved(now - (now % TicksPerDay), now)
    [] period = "weekly" -> Resolved(now - WeekDays * TicksPerDay, now)
    [] period = "monthly" -> Resolved(now - MonthDays * TicksPerDay, now)
    [] period = "yearly" -> Resolved(now - YearDays * TicksPerDay, now)
    [] period = "custom" ->
         IF startDate.kind # "date" \/ endDate.kind # "date" THEN InvalidRange
         ELSE IF ParseDate(startDate) > ParseDate(endDate) THEN InvalidRange
         ELSE Resolved(ParseDate(startDate), ParseDate(endDate))

\* ------------------------------------------------------------ handlers
\* x?.toNumber() || 0 and x || 0: null, undefined and 0 all give 0.
OrZero(x) == IF x = Null THEN 0 ELSE IF x[1] = 0 THEN 0 ELSE x[1]

RECURSIVE Gcd(_, _)
Gcd(a, b) == IF b = 0 THEN a ELSE Gcd(b, a % b)

\* a / b of two numbers, b > 0, as the fraction in lowest terms.
Divide(a, b) == [num |-> a \div Gcd(a, b), den |-> b \div Gcd(a, b)]
Zero == [num |-> 0, den |-> 1]
\* 0 / 0 of two numbers.
NaN == [num |-> 0, den |-> 0]

\* Mutant: orders still pending count as revenue.
relevantStatusesWithPending == <<"PENDING", "CONFIRMED", "SHIPPED", "DELIVERED">>

relevantStatuses == <<"CONFIRMED", "SHIPPED", "DELIVERED">>

\* createdAt: { gte: startDate, lte: endDate }
CreatedAtFilter(range) == [gte |-> range.startDate, lte |-> range.endDate]

\* Mutant: the revenue queries forget the status filter.
RevenueWhereAnyStatus(range) ==
  [createdAt |-> CreatedAtFilter(range), status |-> Null]

RevenueWhere(range) ==
  [createdAt |-> CreatedAtFilter(range), status |-> Some(Range(relevantStatuses))]

\* Mutant: the full breakdowns filter on the revenue statuses too.
AllOrdersWhereRelevant(range) ==
  [createdAt |-> CreatedAtFilter(range), status |-> Some(Range(relevantStatuses))]

AllOrdersWhere(range) ==
  [createdAt |-> CreatedAtFilter(range), status |-> Null]

\* Mutant: the average is taken without asking whether there is any order.
RevenueSummaryUnguarded(range, aggregation) ==
  LET totalRevenue == OrZero(aggregation.sum.finalTotal)
      totalOrders == OrZero(Some(aggregation.count.id))
  IN  [startDate |-> range.startDate, endDate |-> range.endDate,
       totalRevenue |-> totalRevenue, totalOrders |-> totalOrders,
       averageOrderValue |->
         IF totalOrders = 0 THEN NaN ELSE Divide(totalRevenue, totalOrders)]

\* getRevenueSummary, from the reply of aggregate on.
RevenueSummaryResult(range, aggregation) ==
  LET totalRevenue == OrZero(aggregation.sum.finalTotal)
      totalOrders == OrZero(Some(aggregation.count.id))
      averageOrderValue ==
        IF totalOrders > 0 THEN Divide(totalRevenue, totalOrders) ELSE Zero
  IN  [startDate |-> range.startDate, endDate |-> range.endDate,
       totalRevenue |-> totalRevenue, totalOrders |-> totalOrders,
       averageOrderValue |-> averageOrderValue]

\* The entry a breakdown keeps of one group of the reply:
\* { <total>: result._sum.finalTotal?.toNumber() || 0, orderCount: result._count.id || 0 }
Entry(result) ==
  [total |-> OrZero(result.sum.finalTotal), count |-> OrZero(Some(result.count.id))]

\* results.forEach(result => map.set(result.<key>, ...)): a later entry of a
\* key replaces an earlier one.
MapOf(results) ==
  [k \in {results[i].key : i \in 1..Len(results)} |->
     LET last == CHOOSE i \in 1..Len(results) :
                   /\ results[i].key = k
                   /\ \A j \in 1..Len(results) : results[j].key = k => j <= i
     IN  Entry(results[last])]

\* map.get(key)?.<field>: undefined for a key the map does not hold.
Get(map, k) == IF k \in DOMAIN map THEN Some(map[k]) ELSE Null
TotalOf(entry) == IF entry = Null THEN Null ELSE Some(entry[1].total)
CountOf(entry) == IF entry = Null THEN Null ELSE Some(entry[1].count)

\* Mutant: the methods are a list written down before VNPAY was one.
RevenueByPaymentMethodOldList(results) ==
  LET allPaymentMethods == <<"COD", "CREDIT_CARD">>
      revenueMap == MapOf(results)
  IN  [i \in 1..Len(allPaymentMethods) |->
         [paymentMethod |-> allPaymentMethods[i],
          totalRevenue |-> OrZero(TotalOf(Get(revenueMap, allPaymentMethods[i]))),
          orderCount |-> OrZero(CountOf(Get(revenueMap, allPaymentMethods[i])))]]

\* Mutant: an inner join, the groups of the reply and nothing else.
RevenueByPaymentMethodInnerJoin(results) ==
  [i \in 1..Len(results) |->
     [paymentMethod |-> results[i].key,
      totalRevenue |-> Entry(results[i]).total,
      orderCount |-> Entry(results[i]).count]]

\* getRevenueByPaymentMethod, from the reply of groupBy on.
RevenueByPaymentMethodResult(results) ==
  LET allPaymentMethods == PaymentMethod
      revenueMap == MapOf(results)
  IN  [i \in 1..Len(allPaymentMethods) |->
         [paymentMethod |-> allPaymentMethods[i],
          totalRevenue |-> OrZero(TotalOf(Get(revenueMap, allPaymentMethods[i]))),
          orderCount |-> OrZero(CountOf(Get(revenueMap, allPaymentMethods[i])))]]

\* Mutant: the statuses of orders under way only, CANCELED left out.
OrdersByStatusWithoutCanceled(results) ==
  LET allStatuses == <<"PENDING", "CONFIRMED", "SHIPPED", "DELIVERED">>
      statusMap == MapOf(results)
  IN  [i \in 1..Len(allStatuses) |->
         [status |-> allStatuses[i],
          orderCount |-> OrZero(CountOf(Get(statusMap, allStatuses[i]))),
          totalValue |-> OrZero(TotalOf(Get(statusMap, allStatuses[i])))]]

\* getOrdersByStatus, from the reply of groupBy on.
OrdersByStatusResult(results) ==
  LET allStatuses == OrderStatus
      statusMap == MapOf(results)
  IN  [i \in 1..Len(allStatuses) |->
         [status |-> allStatuses[i],
          orderCount |-> OrZero(CountOf(Get(statusMap, allStatuses[i]))),
          totalValue |-> OrZero(TotalOf(Get(statusMap, allStatuses[i])))]]

\* Mutant: the groups of the reply first, as the store lists them, then the
\* values it did not return.
OrdersByPaymentStatusInReplyOrder(results) ==
  LET missing == SelectSeq(PaymentStatus,
                           LAMBDA k : \A i \in 1..Len(results) : results[i].key # k)
  IN  [i \in 1..Len(results) |->
         [paymentStatus |-> results[i].key,
          orderCount |-> Entry(results[i]).count,
          totalValue |-> Entry(results[i]).total]]
        \o [i \in 1..Len(missing) |->
              [paymentStatus |-> missing[i], orderCount |-> 0, totalValue |-> 0]]

\* getOrdersByPaymentStatus, from the reply of groupBy on.
OrdersByPaymentStatusResult(results) ==
  LET allPaymentStatuses == PaymentStatus
      statusMap == MapOf(results)
  IN  [i \in 1..Len(allPaymentStatuses) |->
         [paymentStatus |-> allPaymentStatuses[i],
          orderCount |-> OrZero(CountOf(Get(statusMap, allPaymentStatuses[i]))),
          totalValue |-> OrZero(TotalOf(Get(statusMap, allPaymentStatuses[i])))]]

\* Mutant: the two bounds of the window change places in the result.
OrderFinancialsBoundsSwapped(range, aggregation) ==
  [startDate |-> range.endDate, endDate |-> range.startDate,
   totalShippingFee |-> OrZero(aggregation.sum.shippingFee),
   totalDiscountAmount |-> OrZero(aggregation.sum.discountAmount)]

\* getOrderFinancials, from the reply of aggregate on.
OrderFinancialsResult(range, aggregation) ==
  [startDate |-> range.startDate, endDate |-> range.endDate,
   totalShippingFee |-> OrZero(aggregation.sum.shippingFee),
   totalDiscountAmount |-> OrZero(aggregation.sum.discountAmount)]

\* --------------------------------------------------------------- state
VARIABLES
  pc,      \* pc[r]: "idle", "awaiting" (the store call is out), "done", "failed"
  op,      \* op[r]: the handler that serves request r
  query,   \* query[r]: its PeriodQuery
  clock,   \* clock[r]: the instant the resolver read off the clock (0: none)
  range,   \* range[r]: { startDate, endDate } as resolved
  calls,   \* calls[r]: store calls the handler has issued
  orders,  \* orders[r]: the Order table as the store call of r found it
  result,  \* result[r]: what the handler returned
  error,   \* error[r]: what the handler threw
  store,   \* the Order table while nothing writes it (Null: the rest of
           \* the service writes it, so a call may find any table)
  http     \* http[r]: the req of r on its way through the router

vars == <<pc, op, query, clock, range, calls, orders, result, error, store, http>>

NoQuery == [period |-> "absent", startDate |-> NoDate, endDate |-> NoDate]
NoRange == [startDate |-> 0, endDate |-> 0]
NoResult == [none |-> TRUE]
\* No req: the handler was called without the router.
NoHttp == [at |-> 0, user |-> "none", route |-> "none", valid |-> FALSE]

\* The queries a request may carry: custom with every pair of date inputs,
\* the other periods (and none) without dates.
Queries ==
  {[period |-> "custom", startDate |-> s, endDate |-> e] : s, e \in DateInputs}
    \cup {[period |-> p, startDate |-> NoDate, endDate |-> NoDate] :
            p \in Periods \ {"custom"}}

Init ==
  /\ pc = [r \in Reqs |-> "idle"]
  /\ op = [r \in Reqs |-> "none"]
  /\ query = [r \in Reqs |-> NoQuery]
  /\ clock = [r \in Reqs |-> 0]
  /\ range = [r \in Reqs |-> NoRange]
  /\ calls = [r \in Reqs |-> 0]
  /\ orders = [r \in Reqs |-> EmptyBag]
  /\ result = [r \in Reqs |-> NoResult]
  /\ error = [r \in Reqs |-> "none"]
  /\ store = Null
  /\ http = [r \in Reqs |-> NoHttp]

\* Mutant: a query without period is taken for a daily one.
ResolveDefaultingToDaily(q, now) ==
  getDateRangeFromPeriod(IF q.period = "absent" THEN "daily" ELSE q.period,
                         q.startDate, q.endDate, now)

\* The first statement of every handler:
\*   const { startDate, endDate } =
\*     getDateRangeFromPeriod(query.period, query.startDate, query.endDate)
Resolve(q, now) == getDateRangeFromPeriod(q.period, q.startDate, q.endDate, now)

\* Mutant: a resolver that throws is caught and the last 30 days are served.
BeginLenient(r, o) ==
  /\ pc[r] = "idle"
  /\ \E q \in Queries, now \in Nows :
       LET res == Resolve(q, now)
           fallback == Resolve(NoQuery, now)
       IN  /\ op' = [op EXCEPT ![r] = o]
           /\ query' = [query EXCEPT ![r] = q]
           /\ clock' = [clock EXCEPT ![r] = IF q.period = "custom" THEN 0 ELSE now]
           /\ range' = [range EXCEPT ![r] =
                          IF res.ok
                          THEN [startDate |-> res.startDate, endDate |-> res.endDate]
                          ELSE [startDate |-> fallback.startDate,
                                endDate |-> fallback.endDate]]
           /\ calls' = [calls EXCEPT ![r] = calls[r] + 1]
           /\ pc' = [pc EXCEPT ![r] = "awaiting"]
           /\ error' = error
  /\ UNCHANGED <<orders, result, store, http>>

\* Mutant: the store call goes out before the range is looked at.
BeginCallsFirst(r, o) ==
  /\ pc[r] = "idle"
  /\ \E q \in Queries, now \in Nows :
       LET res == Resolve(q, now)
       IN  /\ op' = [op EXCEPT ![r] = o]
           /\ query' = [query EXCEPT ![r] = q]
           /\ clock' = [clock EXCEPT ![r] = IF q.period = "custom" THEN 0 ELSE now]
           /\ calls' = [calls EXCEPT ![r] = calls[r] + 1]
           /\ IF res.ok
              THEN /\ range' = [range EXCEPT ![r] =
                                  [startDate |-> res.startDate, endDate |-> res.endDate]]
                   /\ pc' = [pc EXCEPT ![r] = "awaiting"]
                   /\ error' = error
              ELSE /\ pc' = [pc EXCEPT ![r] = "failed"]
                   /\ error' = [error EXCEPT ![r] = "InvalidRangeError"]
                   /\ UNCHANGED range
  /\ UNCHANGED <<orders, result, store, http>>

\* Mutant: startDate and endDate are variables of the module, so that a
\* handler that begins moves the window of every request in flight.
BeginSharedRange(r, o) ==
  /\ pc[r] = "idle"
  /\ \E q \in Queries, now \in Nows :
       LET res == Resolve(q, now)
       IN  /\ op' = [op EXCEPT ![r] = o]
           /\ query' = [query EXCEPT ![r] = q]
           /\ clock' = [clock EXCEPT ![r] = IF q.period = "custom" THEN 0 ELSE now]
           /\ IF res.ok
              THEN /\ range' = [s \in Reqs |->
                                  [startDate |-> res.startDate, endDate |-> res.endDate]]
                   /\ calls' = [calls EXCEPT ![r] = calls[r] + 1]
                   /\ pc' = [pc EXCEPT ![r] = "awaiting"]
                   /\ error' = error
              ELSE /\ pc' = [pc EXCEPT ![r] = "failed"]
                   /\ error' = [error EXCEPT ![r] = "InvalidRangeError"]
                   /\ UNCHANGED <<range, calls>>
  /\ UNCHANGED <<orders, result, store, http>>

\* A handler up to its await: the range is resolved and the store call goes
\* out; a resolver that throws ends the handler before the call is made.
Begin(r, o) ==
  /\ pc[r] = "idle"
  /\ \E q \in Queries, now \in Nows :
       LET res == Resolve(q, now)
       IN  /\ op' = [op EXCEPT ![r] = o]
           /\ query' = [query EXCEPT ![r] = q]
           /\ clock' = [clock EXCEPT ![r] = IF q.period = "custom" THEN 0 ELSE now]
           /\ IF res.ok
              THEN /\ range' = [range EXCEPT ![r] =
                                  [startDate |-> res.startDate, endDate |-> res.endDate]]
                   /\ calls' = [calls EXCEPT ![r] = calls[r] + 1]
                   /\ pc' = [pc EXCEPT ![r] = "awaiting"]
                   /\ error' = error
              ELSE /\ pc' = [pc EXCEPT ![r] = "failed"]
                   /\ error' = [error EXCEPT ![r] = "InvalidRangeError"]
                   /\ UNCHANGED <<range, calls>>
  /\ UNCHANGED <<orders, result, store, http>>

\* The tables the store call of r may find when it executes.
Found(r) == IF store = Null THEN Tables(op[r]) ELSE {store[1]}

\* The awaited call resolves against table t and the handler returns res.
Return(r, t, res) ==
  /\ orders' = [orders EXCEPT ![r] = t]
  /\ result' = [result EXCEPT ![r] = res]
  /\ pc' = [pc EXCEPT ![r] = "done"]
  /\ UNCHANGED <<op, query, clock, range, calls, error, store, http>>

getRevenueSummary(r) == Begin(r, "getRevenueSummary")

getRevenueSummaryResume(r) ==
  /\ pc[r] = "awaiting" /\ op[r] = "getRevenueSummary"
  /\ \E t \in Found(r) :
       LET aggregation == Aggregate(t, RevenueWhere(range[r]), {"finalTotal"})
       IN  Return(r, t, RevenueSummaryResult(range[r], aggregation))

getRevenueByPaymentMethod(r) == Begin(r, "getRevenueByPaymentMethod")

getRevenueByPaymentMethodResume(r) ==
  /\ pc[r] = "awaiting" /\ op[r] = "getRevenueByPaymentMethod"
  /\ \E t \in Found(r) :
       \E results \in Listings(GroupBy(t, "paymentMethod", RevenueWhere(range[r]))) :
         Return(r, t, [data |-> RevenueByPaymentMethodResult(results)])

getOrdersByStatus(r) == Begin(r, "getOrdersByStatus")

getOrdersByStatusResume(r) ==
  /\ pc[r] = "awaiting" /\ op[r] = "getOrdersByStatus"
  /\ \E t \in Found(r) :
       \E results \in Listings(GroupBy(t, "status", AllOrdersWhere(range[r]))) :
         Return(r, t, [data |-> OrdersByStatusResult(results)])

getOrdersByPaymentStatus(r) == Begin(r, "getOrdersByPaymentStatus")

getOrdersByPaymentStatusResume(r) ==
  /\ pc[r] = "awaiting" /\ op[r] = "getOrdersByPaymentStatus"
  /\ \E t \in Found(r) :
       \E results \in Listings(GroupBy(t, "paymentStatus", AllOrdersWhere(range[r]))) :
         Return(r, t, [data |-> OrdersByPaymentStatusResult(results)])

getOrderFinancials(r) == Begin(r, "getOrderFinancials")

getOrderFinancialsResume(r) ==
  /\ pc[r] = "awaiting" /\ op[r] = "getOrderFinancials"
  /\ \E t \in Found(r) :
       LET aggregation ==
             Aggregate(t, RevenueWhere(range[r]), {"shippingFee", "discountAmount"})
       IN  Return(r, t, OrderFinancialsResult(range[r], aggregation))

\* Mutant: a call that rejects is made again.
StoreRejectRetried(r) ==
  /\ pc[r] = "awaiting"
  /\ calls' = [calls EXCEPT ![r] = calls[r] + 1]
  /\ UNCHANGED <<pc, op, query, clock, range, orders, result, error, store, http>>

\* The awaited call rejects: the handler catches nothing, the error is its own.
StoreReject(r) ==
  /\ pc[r] = "awaiting"
  /\ pc' = [pc EXCEPT ![r] = "failed"]
  /\ error' = [error EXCEPT ![r] = "StoreUnavailableError"]
  /\ UNCHANGED <<op, query, clock, range, calls, orders, result, store, http>>

\* The caller has its answer; the request is over and r serves the next one.
Respond(r) ==
  /\ pc[r] \in {"done", "failed"}
  /\ pc' = [pc EXCEPT ![r] = "idle"]
  /\ op' = [op EXCEPT ![r] = "none"]
  /\ query' = [query EXCEPT ![r] = NoQuery]
  /\ clock' = [clock EXCEPT ![r] = 0]
  /\ range' = [range EXCEPT ![r] = NoRange]
  /\ calls' = [calls EXCEPT ![r] = 0]
  /\ orders' = [orders EXCEPT ![r] = EmptyBag]
  /\ result' = [result EXCEPT ![r] = NoResult]
  /\ error' = [error EXCEPT ![r] = "none"]
  /\ http' = [http EXCEPT ![r] = NoHttp]
  /\ UNCHANGED store

\* One request after another, served as r1.
Next ==
  \/ getRevenueSummary("r1")
  \/ getRevenueSummaryResume("r1")
  \/ getRevenueByPaymentMethod("r1")
  \/ getRevenueByPaymentMethodResume("r1")
  \/ getOrdersByStatus("r1")
  \/ getOrdersByStatusResume("r1")
  \/ getOrdersByPaymentStatus("r1")
  \/ getOrdersByPaymentStatusResume("r1")
  \/ getOrderFinancials("r1")
  \/ getOrderFinancialsResume("r1")
  \/ StoreReject("r1")
  \/ Respond("r1")

Spec == Init /\ [][Next]_vars

\* --------------------------------------------------------------- router
\* Requests of /stats/revenue on their way through the router to a handler.
UserRole == <<"CUSTOMER", "STAFF", "ADMIN">>

\* Who sends a request: nobody the service knows, or a user with a role.
Callers == {"anonymous"} \cup Range(UserRole)

\* Mutant: router.use(authenticate) alone.
RouterUseAuthenticateOnly == <<"authenticate">>

\* router.use(authenticate, isStaffOrAdmin), ahead of every route.
RouterUse == <<"authenticate", "isStaffOrAdmin">>

\* router.get(path, validateRequestQuery(schema), controller).
RouteHandlers == <<"validateRequestQuery", "controller">>

\* What a request of any of the routes passes through, in this order.
Pipeline == RouterUse \o RouteHandlers

Routes == {"/summary", "/by-payment-method", "/orders/by-status",
           "/orders/by-payment-status", "/orders/financials"}

\* The function at which the req of r stands ("none": at none).
Stage(r) ==
  IF http[r].at \in DOMAIN Pipeline THEN Pipeline[http[r].at] ELSE "none"

\* A request comes in: its sender, its path, and whether its query string
\* is one the route's schema accepts.
Receive(r) ==
  /\ http[r] = NoHttp /\ pc[r] = "idle"
  /\ \E u \in Callers, p \in Routes, v \in BOOLEAN :
       http' = [http EXCEPT ![r] = [at |-> 1, user |-> u, route |-> p, valid |-> v]]
  /\ UNCHANGED <<pc, op, query, clock, range, calls, orders, result, error, store>>

\* A middleware calls next() when pass holds and answers the request itself
\* when not.
Middleware(r, name, pass) ==
  /\ Stage(r) = name
  /\ http' = [http EXCEPT ![r] =
                IF pass THEN [http[r] EXCEPT !.at = @ + 1] ELSE NoHttp]
  /\ UNCHANGED <<pc, op, query, clock, range, calls, orders, result, error, store>>

authenticate(r) == Middleware(r, "authenticate", http[r].user # "anonymous")

isStaffOrAdmin(r) == Middleware(r, "isStaffOrAdmin", http[r].user \in {"STAFF", "ADMIN"})

validateRequestQuery(r) == Middleware(r, "validateRequestQuery", http[r].valid)

\* The req of r has come to the controller of path.
Dispatched(r, path) == Stage(r) = "controller" /\ http[r].route = path

\* One request after another through the router, served as r1.
NextRoutes ==
  \/ Receive("r1")
  \/ authenticate("r1")
  \/ isStaffOrAdmin("r1")
  \/ validateRequestQuery("r1")
  \/ Dispatched("r1", "/summary") /\ getRevenueSummary("r1")
  \/ getRevenueSummaryResume("r1")
  \/ Dispatched("r1", "/by-payment-method") /\ getRevenueByPaymentMethod("r1")
  \/ getRevenueByPaymentMethodResume("r1")
  \/ Dispatched("r1", "/orders/by-status") /\ getOrdersByStatus("r1")
  \/ getOrdersByStatusResume("r1")
  \/ Dispatched("r1", "/orders/by-payment-status") /\ getOrdersByPaymentStatus("r1")
  \/ getOrdersByPaymentStatusResume("r1")
  \/ Dispatched("r1", "/orders/financials") /\ getOrderFinancials("r1")
  \/ getOrderFinancialsResume("r1")
  \/ StoreReject("r1")
  \/ Respond("r1")

SpecRoutes == Init /\ [][NextRoutes]_vars

\* ----------------------------------------------------------- concurrency
\* Requests served at once, over an Order table that nothing else writes.

\* Rows that every handler's sample of the table holds.
SharedRows == {row \in RowsFor("getRevenueSummary") : \A o \in Ops : row \in RowsFor(o)}

\* Custom periods with both dates given.
DatedQueries ==
  {q \in Queries : q.period = "custom" /\ q.startDate.kind = "date"
                                       /\ q.endDate.kind = "date"}

InitConcurrent ==
  /\ pc = [r \in Reqs |-> "idle"]
  /\ op = [r \in Reqs |-> "none"]
  /\ query = [r \in Reqs |-> NoQuery]
  /\ clock = [r \in Reqs |-> 0]
  /\ range = [r \in Reqs |-> NoRange]
  /\ calls = [r \in Reqs |-> 0]
  /\ orders = [r \in Reqs |-> EmptyBag]
  /\ result = [r \in Reqs |-> NoResult]
  /\ error = [r \in Reqs |-> "none"]
  /\ store \in {Some(t) : t \in TablesUpTo(SharedRows, MaxOrders)}
  /\ http = [r \in Reqs |-> NoHttp]

\* The steps of the requests interleave in any order.
NextConcurrent ==
  \E r \in Reqs :
    \/ getRevenueSummary(r) /\ query'[r] \in DatedQueries
    \/ getRevenueSummaryResume(r)
    \/ getRevenueByPaymentMethod(r) /\ query'[r] \in DatedQueries
    \/ getRevenueByPaymentMethodResume(r)
    \/ getOrdersByStatus(r) /\ query'[r] \in DatedQueries
    \/ getOrdersByStatusResume(r)
    \/ getOrdersByPaymentStatus(r) /\ query'[r] \in DatedQueries
    \/ getOrdersByPaymentStatusResume(r)
    \/ getOrderFinancials(r) /\ query'[r] \in DatedQueries
    \/ getOrderFinancialsResume(r)
    \/ StoreReject(r)
    \/ Respond(r)

SpecConcurrent == InitConcurrent /\ [][NextConcurrent]_vars

\* ============================================================== claims
\* What the claims speak of, stated without the store's operators.
InWindow(row, rg) == rg.startDate <= row.createdAt /\ row.createdAt <= rg.endDate
Contributes(row) == row.status \in {"CONFIRMED", "SHIPPED", "DELIVERED"}

Only(t, P(_)) == [x \in {y \in DOMAIN t : P(y)} |-> t[x]]

RECURSIVE Total(_, _)
Total(t, column) ==
  IF DOMAIN t = {} THEN 0
  ELSE LET x == CHOOSE y \in DOMAIN t : TRUE
       IN  x[column] + Total(t (-) SetToBag({x}), column)

Done(r, o) == pc[r] = "done" /\ op[r] = o

\* Whether data lists the values of enum, each once and nothing else, under
\* the key field.
OnePerValue(data, field, enum) ==
  /\ Len(data) = Len(enum)
  /\ \A i \in 1..Len(data) : data[i][field] \in Range(enum)
  /\ \A v \in Range(enum) : Cardinality({i \in 1..Len(data) : data[i][field] = v}) = 1

\* C1: whatever the table holds (nothing included) and whatever the window,
\* each of the three breakdowns returns exactly one entry per value of its
\* enum: none missing, none twice, none outside the enum.
C1_OneEntryPerEnumValue ==
  \A r \in Reqs :
    /\ Done(r, "getRevenueByPaymentMethod") =>
         OnePerValue(result[r].data, "paymentMethod", PaymentMethod)
    /\ Done(r, "getOrdersByStatus") =>
         OnePerValue(result[r].data, "status", OrderStatus)
    /\ Done(r, "getOrdersByPaymentStatus") =>
         OnePerValue(result[r].data, "paymentStatus", PaymentStatus)

\* A breakdown has returned over a table whose rows in the window fall in
\* fewer groups than the enum has values.
C1_Witness ==
  \E r \in Reqs :
    /\ Done(r, "getOrdersByPaymentStatus")
    /\ BagCardinality(Only(orders[r], LAMBDA x : InWindow(x, range[r]))) = MaxOrders
    /\ OnePerValue(result[r].data, "paymentStatus", PaymentStatus)

\* The results handler o may return for table t and window rg: one per order
\* in which the store may list its groups.
Outcomes(o, t, rg) ==
  CASE o = "getRevenueSummary" ->
         {RevenueSummaryResult(rg, Aggregate(t, RevenueWhere(rg), {"finalTotal"}))}
    [] o = "getRevenueByPaymentMethod" ->
         {[data |-> RevenueByPaymentMethodResult(results)] :
            results \in Listings(GroupBy(t, "paymentMethod", RevenueWhere(rg)))}
    [] o = "getOrdersByStatus" ->
         {[data |-> OrdersByStatusResult(results)] :
            results \in Listings(GroupBy(t, "status", AllOrdersWhere(rg)))}
    [] o = "getOrdersByPaymentStatus" ->
         {[data |-> OrdersByPaymentStatusResult(results)] :
            results \in Listings(GroupBy(t, "paymentStatus", AllOrdersWhere(rg)))}
    [] o = "getOrderFinancials" ->
         {OrderFinancialsResult(rg,
            Aggregate(t, RevenueWhere(rg), {"shippingFee", "discountAmount"}))}

\* The entries of data whose key field is k.
EntriesOf(data, field, k) == {data[i] : i \in {j \in 1..Len(data) : data[j][field] = k}}

\* The rows of handler o's tables that lie in window rg and are pending or
\* canceled.
Uncounted(o, rg) ==
  {x \in RowsFor(o) : x.status \in {"PENDING", "CANCELED"} /\ InWindow(x, rg)}

\* C2: getRevenueSummary and getOrderFinancials count CONFIRMED, SHIPPED and
\* DELIVERED orders only: with one more, or one less, PENDING or CANCELED
\* order in the window they return the same totals and average, while
\* getOrdersByStatus returns another entry for that status.
C2_PendingAndCanceledDoNotCount ==
  \A r \in Reqs :
    pc[r] = "done" =>
      \A x \in Uncounted(op[r], range[r]) :
        LET more == orders[r] (+) SetToBag({x})
            less == orders[r] (-) SetToBag({x})
            had == x \in DOMAIN orders[r]
        IN  /\ op[r] \in {"getRevenueSummary", "getOrderFinancials"} =>
                 /\ Outcomes(op[r], more, range[r]) = {result[r]}
                 /\ had => Outcomes(op[r], less, range[r]) = {result[r]}
            /\ op[r] = "getOrdersByStatus" =>
                 /\ \A res \in Outcomes(op[r], more, range[r]) :
                      EntriesOf(res.data, "status", x.status)
                        # EntriesOf(result[r].data, "status", x.status)
                 /\ had => \A res \in Outcomes(op[r], less, range[r]) :
                      EntriesOf(res.data, "status", x.status)
                        # EntriesOf(result[r].data, "status", x.status)

\* The summary has returned over a table that holds a pending order of the
\* window with money on it, next to an order that counts.
C2_Witness ==
  \E r \in Reqs :
    /\ Done(r, "getRevenueSummary")
    /\ \E x \in DOMAIN orders[r] : x \in Uncounted(op[r], range[r]) /\ x.finalTotal > 0
    /\ result[r].totalOrders = 1
    /\ result[r].totalRevenue > 0

\* C3: in the summary, averageOrderValue is totalRevenue / totalOrders when
\* totalOrders > 0 and 0 when totalOrders = 0; with no matching order in the
\* window the three figures are 0 (a number: never the 0 / 0 of a null sum).
C3_AverageOrderValue ==
  \A r \in Reqs :
    Done(r, "getRevenueSummary") =>
      LET res == result[r]
          matching == Only(orders[r], LAMBDA x : InWindow(x, range[r]) /\ Contributes(x))
      IN  /\ res.averageOrderValue.den > 0
          /\ res.totalOrders > 0 =>
               res.averageOrderValue.num * res.totalOrders
                 = res.totalRevenue * res.averageOrderValue.den
          /\ res.totalOrders = 0 => res.averageOrderValue = Zero
          /\ DOMAIN matching = {} =>
               /\ res.totalRevenue = 0
               /\ res.totalOrders = 0
               /\ res.averageOrderValue = Zero

\* The summary has returned the average of two orders of the window, one of
\* them with no money on it.
C3_Witness ==
  \E r \in Reqs :
    /\ Done(r, "getRevenueSummary")
    /\ \E x \in DOMAIN orders[r] :
         x.finalTotal = 0 /\ Contributes(x) /\ InWindow(x, range[r])
    /\ result[r].totalOrders = 2
    /\ result[r].totalRevenue = 2
    /\ result[r].averageOrderValue = [num |-> 1, den |-> 1]

\* C4: the entry of payment method m in getRevenueByPaymentMethod counts the
\* orders of the window with status CONFIRMED, SHIPPED or DELIVERED paid by m
\* and sums their finalTotal; it is 0, 0 when there is none.
C4_RevenueByPaymentMethod ==
  \A r \in Reqs :
    Done(r, "getRevenueByPaymentMethod") =>
      \A m \in Range(PaymentMethod) :
        LET mine == Only(orders[r], LAMBDA x : /\ InWindow(x, range[r])
                                               /\ Contributes(x)
                                               /\ x.paymentMethod = m)
        IN  EntriesOf(result[r].data, "paymentMethod", m)
              = {[paymentMethod |-> m,
                  totalRevenue |-> Total(mine, "finalTotal"),
                  orderCount |-> BagCardinality(mine)]}

\* The breakdown has returned over two orders of one method, one that counts
\* and one that does not.
C4_Witness ==
  \E r \in Reqs :
    /\ Done(r, "getRevenueByPaymentMethod")
    /\ \E x, y \in DOMAIN orders[r] :
         /\ x.paymentMethod = "VNPAY" /\ y.paymentMethod = "VNPAY"
         /\ InWindow(x, range[r]) /\ InWindow(y, range[r])
         /\ Contributes(x) /\ ~Contributes(y)
         /\ x.finalTotal > 0 /\ y.finalTotal > 0
    /\ \E i \in 1..Len(result[r].data) :
         /\ result[r].data[i].paymentMethod = "VNPAY"
         /\ result[r].data[i].orderCount = 1

\* C5: getOrdersByStatus and getOrdersByPaymentStatus filter on no status:
\* the entry of value k counts all the orders of the window whose status
\* (respectively paymentStatus) is k, pending and canceled ones included, and
\* sums their finalTotal; it is 0, 0 when there is none.
C5_FullBreakdowns ==
  \A r \in Reqs :
    /\ Done(r, "getOrdersByStatus") =>
         \A k \in Range(OrderStatus) :
           LET mine == Only(orders[r], LAMBDA x : InWindow(x, range[r]) /\ x.status = k)
           IN  EntriesOf(result[r].data, "status", k)
                 = {[status |-> k,
                     orderCount |-> BagCardinality(mine),
                     totalValue |-> Total(mine, "finalTotal")]}
    /\ Done(r, "getOrdersByPaymentStatus") =>
         \A k \in Range(PaymentStatus) :
           LET mine == Only(orders[r], LAMBDA x : InWindow(x, range[r]) /\ x.paymentStatus = k)
           IN  EntriesOf(result[r].data, "paymentStatus", k)
                 = {[paymentStatus |-> k,
                     orderCount |-> BagCardinality(mine),
                     totalValue |-> Total(mine, "finalTotal")]}

\* The breakdown by payment status has returned an entry that counts a
\* canceled order and a delivered one.
C5_Witness ==
  \E r \in Reqs :
    /\ Done(r, "getOrdersByPaymentStatus")
    /\ \E x, y \in DOMAIN orders[r] :
         /\ x.status = "CANCELED" /\ y.status = "DELIVERED"
         /\ x.paymentStatus = "REFUNDED" /\ y.paymentStatus = "REFUNDED"
         /\ InWindow(x, range[r]) /\ InWindow(y, range[r])
         /\ x.finalTotal > 0
    /\ \E i \in 1..Len(result[r].data) :
         /\ result[r].data[i].paymentStatus = "REFUNDED"
         /\ result[r].data[i].orderCount = 2

RECURSIVE SumSeq(_, _)
SumSeq(data, field) ==
  IF data = << >> THEN 0 ELSE Head(data)[field] + SumSeq(Tail(data), field)

\* C6: the window of all five queries includes both of its bounds: an order
\* counts exactly when startDate <= createdAt <= endDate (and, for the
\* revenue queries, its status contributes), so an order placed at the very
\* start or end is counted and one before the start or after the end is not.
C6_WindowInclusive ==
  \A r \in Reqs :
    pc[r] = "done" =>
      LET inside == Only(orders[r], LAMBDA x : InWindow(x, range[r]))
          counted == Only(inside, Contributes)
      IN  /\ op[r] = "getRevenueSummary" =>
               /\ result[r].totalOrders = BagCardinality(counted)
               /\ result[r].totalRevenue = Total(counted, "finalTotal")
          /\ op[r] = "getRevenueByPaymentMethod" =>
               /\ SumSeq(result[r].data, "orderCount") = BagCardinality(counted)
               /\ SumSeq(result[r].data, "totalRevenue") = Total(counted, "finalTotal")
          /\ op[r] \in {"getOrdersByStatus", "getOrdersByPaymentStatus"} =>
               /\ SumSeq(result[r].data, "orderCount") = BagCardinality(inside)
               /\ SumSeq(result[r].data, "totalValue") = Total(inside, "finalTotal")
          /\ op[r] = "getOrderFinancials" =>
               /\ result[r].totalShippingFee = Total(counted, "shippingFee")
               /\ result[r].totalDiscountAmount = Total(counted, "discountAmount")

\* The summary has counted an order placed at the start of the window and
\* one placed at its end, with money on it.
C6_Witness ==
  \E r \in Reqs :
    /\ Done(r, "getRevenueSummary")
    /\ range[r].startDate < range[r].endDate
    /\ \E x, y \in DOMAIN orders[r] :
         /\ x.createdAt = range[r].startDate /\ y.createdAt = range[r].endDate
         /\ Contributes(x) /\ Contributes(y) /\ y.finalTotal > 0
    /\ result[r].totalOrders = 2

\* Whether q is custom with two dates of which the first is the later.
Reversed(q) ==
  /\ q.period = "custom"
  /\ q.startDate.kind = "date" /\ q.endDate.kind = "date"
  /\ q.startDate.day > q.endDate.day

\* C7: a custom query whose startDate is later than its endDate fails with
\* InvalidRangeError in each of the five queries: no store call, no result.
C7_ReversedCustomRangeFails ==
  \A r \in Reqs :
    (pc[r] # "idle" /\ Reversed(query[r])) =>
      /\ pc[r] = "failed"
      /\ error[r] = "InvalidRangeError"
      /\ result[r] = NoResult
      /\ calls[r] = 0

\* A breakdown was asked for startDate = day 1, endDate = day 0.
C7_Witness ==
  \E r \in Reqs :
    /\ op[r] = "getOrdersByStatus"
    /\ query[r] = [period |-> "custom", startDate |-> DateOf(1), endDate |-> DateOf(0)]
    /\ pc[r] = "failed"

\* Whether q is a valid combination: no period, a named one, or custom with
\* two dates of which the first is not the later.
Valid(q) ==
  \/ q.period # "custom"
  \/ /\ q.startDate.kind = "date" /\ q.endDate.kind = "date"
     /\ q.startDate.day <= q.endDate.day

\* C8: every valid (period, startDate, endDate) resolves, to a range with
\* start <= end, which getRevenueSummary and getOrderFinancials return as
\* their (startDate, endDate).
C8_ResolvedRangeOrdered ==
  \A r \in Reqs :
    (pc[r] # "idle" /\ Valid(query[r])) =>
      /\ error[r] # "InvalidRangeError"
      /\ range[r].startDate <= range[r].endDate
      /\ (pc[r] = "done" /\ op[r] \in {"getRevenueSummary", "getOrderFinancials"}) =>
           /\ result[r].startDate = range[r].startDate
           /\ result[r].endDate = range[r].endDate
           /\ result[r].startDate <= result[r].endDate

\* getOrderFinancials has returned the range of a daily query, whose start
\* lies before its end.
C8_Witness ==
  \E r \in Reqs :
    /\ Done(r, "getOrderFinancials")
    /\ query[r].period = "daily"
    /\ result[r].startDate < result[r].endDate

\* C9: without period the window is the 30 days that end now, whatever the
\* endpoint.
C9_DefaultTrailing30Days ==
  \A r \in Reqs :
    (pc[r] # "idle" /\ query[r].period = "absent") =>
      /\ error[r] # "InvalidRangeError"
      /\ range[r] = [startDate |-> clock[r] - 30 * TicksPerDay, endDate |-> clock[r]]

\* A breakdown has returned for a query without period, over an order placed
\* within the last 30 days.
C9_Witness ==
  \E r \in Reqs :
    /\ Done(r, "getOrdersByStatus")
    /\ query[r].period = "absent"
    /\ clock[r] > 0
    /\ \E i \in 1..Len(result[r].data) : result[r].data[i].orderCount > 0

\* The enum a breakdown lists, and the field it lists it under.
EnumOf(o) ==
  CASE o = "getRevenueByPaymentMethod" -> PaymentMethod
    [] o = "getOrdersByStatus" -> OrderStatus
    [] o = "getOrdersByPaymentStatus" -> PaymentStatus
KeyOf(o) ==
  CASE o = "getRevenueByPaymentMethod" -> "paymentMethod"
    [] o = "getOrdersByStatus" -> "status"
    [] o = "getOrdersByPaymentStatus" -> "paymentStatus"

\* C10: the same query over the same window and the same table returns the
\* same result whenever it is issued: whatever the order in which the store
\* lists the groups, the handler returns what it returned, and a breakdown
\* lists its entries in the order in which the enum declares its values.
C10_SameQuerySameResult ==
  \A r \in Reqs :
    pc[r] = "done" =>
      /\ Outcomes(op[r], orders[r], range[r]) = {result[r]}
      /\ op[r] \in {"getRevenueByPaymentMethod", "getOrdersByStatus",
                    "getOrdersByPaymentStatus"} =>
           \A i \in 1..Len(result[r].data) :
             /\ i <= Len(EnumOf(op[r]))
             /\ result[r].data[i][KeyOf(op[r])] = EnumOf(op[r])[i]

\* A breakdown has returned over a reply of two groups, which the store may
\* list in two orders.
C10_Witness ==
  \E r \in Reqs :
    /\ Done(r, "getOrdersByPaymentStatus")
    /\ Cardinality(GroupBy(orders[r], "paymentStatus", AllOrdersWhere(range[r]))) = 2

\* C11: when the resolver fails, each of the five queries fails with its
\* InvalidRangeError and no call goes to the store: the range is resolved
\* before the call is made, and nothing stands between the error and the
\* caller.
C11_ResolverFailureBeforeStore ==
  \A r \in Reqs :
    /\ (pc[r] # "idle" /\ ~Resolve(query[r], clock[r]).ok) =>
         /\ pc[r] = "failed"
         /\ error[r] = "InvalidRangeError"
         /\ calls[r] = 0
         /\ orders[r] = EmptyBag
         /\ result[r] = NoResult
    /\ calls[r] > 0 => Resolve(query[r], clock[r]).ok
    /\ error[r] = "InvalidRangeError" => ~Resolve(query[r], clock[r]).ok

\* getOrderFinancials was asked for a custom period without endDate.
C11_Witness ==
  \E r \in Reqs :
    /\ op[r] = "getOrderFinancials"
    /\ query[r] = [period |-> "custom", startDate |-> DateOf(0), endDate |-> NoDate]
    /\ pc[r] = "failed"
    /\ error[r] = "InvalidRangeError"

\* C12: a store call that fails fails the query with the store's error: the
\* call is not made again and nothing is returned in place of the error.
\* Every invocation makes at most one store call and ends either with its
\* result or with an error, never with both.
C12_StoreFailurePropagates ==
  \A r \in Reqs :
    /\ calls[r] <= 1
    /\ pc[r] = "done" => (calls[r] = 1 /\ error[r] = "none" /\ result[r] # NoResult)
    /\ pc[r] = "failed" => (error[r] # "none" /\ result[r] = NoResult)
    /\ pc[r] \in {"idle", "awaiting"} => (error[r] = "none" /\ result[r] = NoResult)
    /\ error[r] = "StoreUnavailableError" =>
         (pc[r] = "failed" /\ calls[r] = 1 /\ orders[r] = EmptyBag)

\* The store call of getOrdersByStatus has failed.
C12_Witness ==
  \E r \in Reqs :
    /\ op[r] = "getOrdersByStatus"
    /\ pc[r] = "failed"
    /\ error[r] = "StoreUnavailableError"
    /\ calls[r] = 1

\* C13: on each of the five routes the handler runs only after authenticate
\* and then isStaffOrAdmin have passed the request on, and after the query
\* was validated: a request of a caller who is not authenticated, or whose
\* role is neither STAFF nor ADMIN, never comes to an aggregation query.
C13_HandlerBehindAuth ==
  \A r \in Reqs :
    /\ Stage(r) \in {"isStaffOrAdmin", "validateRequestQuery", "controller"} =>
         http[r].user # "anonymous"
    /\ Stage(r) \in {"validateRequestQuery", "controller"} =>
         http[r].user \in {"STAFF", "ADMIN"}
    /\ Stage(r) = "controller" => http[r].valid
    /\ pc[r] # "idle" =>
         /\ Dispatched(r, http[r].route)
         /\ http[r].user \in {"STAFF", "ADMIN"}
         /\ http[r].valid
         /\ op[r] \in Ops

\* GET /orders/financials of a STAFF user is answered by getOrderFinancials.
C13_Witness ==
  \E r \in Reqs :
    /\ http[r].user = "STAFF" /\ http[r].route = "/orders/financials"
    /\ Done(r, "getOrderFinancials")

\* The window a request resolves to by itself.
OwnRange(r) ==
  LET res == Resolve(query[r], clock[r])
  IN  [startDate |-> res.startDate, endDate |-> res.endDate]

\* C14: the queries only read, and share nothing that changes: no handler
\* changes the Order table, and of requests served at once over unchanged
\* data, their store round trips interleaved in any order, each returns
\* what it returns when served alone: the result over its own window and
\* the table as it stands, with nothing of another request's in it.
C14_ConcurrentRequestsIsolated ==
  /\ [][store' = store]_vars
  /\ [](\A r \in Reqs :
          /\ pc[r] \in {"awaiting", "done"} => range[r] = OwnRange(r)
          /\ pc[r] = "done" =>
               /\ orders[r] = store[1]
               /\ Outcomes(op[r], store[1], OwnRange(r)) = {result[r]})

\* r1 has its answer over the whole of a table of one order a day, while
\* the call of r2, of another handler over day 1 alone, is still out.
C14_Witness ==
  /\ store # Null /\ BagCardinality(store[1]) = 2
  /\ \E x, y \in BagToSet(store[1]) : x.createdAt < y.createdAt
  /\ pc["r1"] = "done" /\ pc["r2"] = "awaiting"
  /\ op["r1"] = "getOrdersByStatus" /\ op["r2"] = "getRevenueSummary"
  /\ range["r1"] = [startDate |-> 0, endDate |-> TicksPerDay]
  /\ range["r2"] = [startDate |-> TicksPerDay, endDate |-> TicksPerDay]

\* C15: over one window and one table, the orderCount of all payment
\* methods in getRevenueByPaymentMethod add up to the totalOrders of
\* getRevenueSummary, and their totalRevenue to its totalRevenue.
C15_MethodsAddUpToSummary ==
  \A r \in Reqs :
    /\ Done(r, "getRevenueByPaymentMethod") =>
         \A summary \in Outcomes("getRevenueSummary", orders[r], range[r]) :
           /\ SumSeq(result[r].data, "orderCount") = summary.totalOrders
           /\ SumSeq(result[r].data, "totalRevenue") = summary.totalRevenue
    /\ Done(r, "getRevenueSummary") =>
         \A byMethod \in Outcomes("getRevenueByPaymentMethod", orders[r], range[r]) :
           /\ SumSeq(byMethod.data, "orderCount") = result[r].totalOrders
           /\ SumSeq(byMethod.data, "totalRevenue") = result[r].totalRevenue

\* The breakdown has returned over two delivered orders of the window paid
\* by different methods, which the summary counts as 2 orders of 4 in all.
C15_Witness ==
  \E r \in Reqs :
    /\ Done(r, "getRevenueByPaymentMethod")
    /\ \E x, y \in DOMAIN orders[r] :
         /\ x.paymentMethod = "COD" /\ y.paymentMethod = "VNPAY"
         /\ Contributes(x) /\ Contributes(y)
         /\ InWindow(x, range[r]) /\ InWindow(y, range[r])
         /\ x.finalTotal = 2 /\ y.finalTotal = 2
    /\ SumSeq(result[r].data, "orderCount") = 2
    /\ SumSeq(result[r].data, "totalRevenue") = 4

\* The entries of a breakdown by status whose status counts as revenue.
RevenueEntries(data) == SelectSeq(data, LAMBDA e : e.status \in Range(relevantStatuses))

\* C16: over one window and one table, the orderCount (and the totalValue)
\* of the entries of getOrdersByStatus add up to what those of
\* getOrdersByPaymentStatus add up to, which is the number (and the
\* finalTotal) of all orders of the window; and the CONFIRMED, SHIPPED and
\* DELIVERED entries of getOrdersByStatus add up to the totalOrders and the
\* totalRevenue of getRevenueSummary.
C16_BreakdownsAddUp ==
  \A r \in Reqs :
    LET inside == Only(orders[r], LAMBDA x : InWindow(x, range[r]))
    IN  /\ Done(r, "getOrdersByStatus") =>
             /\ SumSeq(result[r].data, "orderCount") = BagCardinality(inside)
             /\ SumSeq(result[r].data, "totalValue") = Total(inside, "finalTotal")
             /\ \A other \in Outcomes("getOrdersByPaymentStatus", orders[r], range[r]) :
                  /\ SumSeq(other.data, "orderCount") = SumSeq(result[r].data, "orderCount")
                  /\ SumSeq(other.data, "totalValue") = SumSeq(result[r].data, "totalValue")
             /\ \A summary \in Outcomes("getRevenueSummary", orders[r], range[r]) :
                  /\ SumSeq(RevenueEntries(result[r].data), "orderCount")
                       = summary.totalOrders
                  /\ SumSeq(RevenueEntries(result[r].data), "totalValue")
                       = summary.totalRevenue
        /\ Done(r, "getOrdersByPaymentStatus") =>
             /\ SumSeq(result[r].data, "orderCount") = BagCardinality(inside)
             /\ SumSeq(result[r].data, "totalValue") = Total(inside, "finalTotal")
             /\ \A other \in Outcomes("getOrdersByStatus", orders[r], range[r]) :
                  /\ SumSeq(other.data, "orderCount") = SumSeq(result[r].data, "orderCount")
                  /\ SumSeq(other.data, "totalValue") = SumSeq(result[r].data, "totalValue")
        /\ Done(r, "getRevenueSummary") =>
             \A byStatus \in Outcomes("getOrdersByStatus", orders[r], range[r]) :
               /\ SumSeq(RevenueEntries(byStatus.data), "orderCount")
                    = result[r].totalOrders
               /\ SumSeq(RevenueEntries(byStatus.data), "totalValue")
                    = result[r].totalRevenue

\* The breakdown by status has returned over a canceled and a shipped order
\* of the window, each with money on it: 2 orders of 4 in all, of which the
\* summary counts 1 of 2.
C16_Witness ==
  \E r \in Reqs :
    /\ Done(r, "getOrdersByStatus")
    /\ \E x, y \in DOMAIN orders[r] :
         /\ x.status = "CANCELED" /\ y.status = "SHIPPED"
         /\ InWindow(x, range[r]) /\ InWindow(y, range[r])
         /\ x.finalTotal = 2 /\ y.finalTotal = 2
    /\ SumSeq(result[r].data, "orderCount") = 2
    /\ SumSeq(result[r].data, "totalValue") = 4
    /\ SumSeq(RevenueEntries(result[r].data), "orderCount") = 1
    /\ SumSeq(RevenueEntries(result[r].data), "totalValue") = 2

====
